---------------------------- MODULE Spec2Model ----------------------------
(***************************************************************************)
(* A model of buildskill's document analysis (src/buildskill/doc_analyzer.py *)
(* and cmd_analyze of src/buildskill/main.py): the Gateway retry loops      *)
(* (_call_llm, _call_llm_with_file), the Score Extractor                    *)
(* (_parse_review_scores, _round_to_half), the per-document pipeline        *)
(* (analyze_single_doc) and the run over a directory with its persistence   *)
(* and resume (analyze_doc_dir).                                            *)
(*                                                                         *)
(* Texts are sequences of tokens: a token is one place of a text where one  *)
(* of the code's regular expressions can match, so a search is "the first   *)
(* token, from the left, that the pattern matches".                        *)
(***************************************************************************)
EXTENDS Integers, Sequences, FiniteSets, TLC

VARIABLES
    sx,        \* a function called on its own: [text, out], its input and what it returned
    gw,        \* the Gateway invocation in progress (one _call_llm / _call_llm_with_file frame)
    dir,       \* the files of doc_dir (a set of file names)
    docs,      \* the list `docs` of analyze_doc_dir
    origin,    \* per document, the composite of its own analysis last recorded (-1: none yet)
    fs,        \* the files of doc_dir/_analysis: path -> content, or Absent
    run,       \* number of the current invocation of cmd_analyze (0: none yet)
    resume,    \* the --resume flag of the current invocation
    pc,        \* where the current invocation of analyze_doc_dir stands
    i,         \* index of the document the loop of analyze_doc_dir is at (1-based)
    cur,       \* locals of analyze_single_doc for document i
    results,   \* the list `results` of analyze_doc_dir
    exit,      \* what cmd_analyze returned (None while it runs)
    log        \* what the invocation did so far: calls, raises, pauses, writes

vars == <<sx, gw, dir, docs, origin, fs, run, resume, pc, i, cur, results, exit, log>>


Range(s) == {s[k] : k \in DOMAIN s}

(***************************************************************************)
(* IEEE-754 binary64 arithmetic, as far as _parse_review_scores uses it.    *)
(* Every value that occurs there (a weight, a product score * weight, a     *)
(* partial sum) lies in [0.05, 5] and so is a whole multiple of 2^-57 below *)
(* 2^60 * 2^-57.  A double is kept as <<h, m, l>>, three limbs of 20 bits:  *)
(* value = (h * 2^40 + m * 2^20 + l) / 2^57.                                *)
(***************************************************************************)
Limb == 2^20

\* Carries moved up, so that m and l are below 2^20 again.
FNorm(x) ==
    LET l == x[3] % Limb
        m2 == x[2] + (x[3] \div Limb)
    IN  <<x[1] + (m2 \div Limb), m2 % Limb, l>>

\* Number of bits of h, for 2^12 <= h < 2^21.
BitLen(h) ==
    CHOOSE n \in 13..21 : 2^(n-1) <= h /\ h < 2^n

\* The exact value x rounded to 53 significant bits, ties to even: what the
\* hardware does to the exact result of every + and *.
FRound(x) ==
    LET d == BitLen(x[1]) - 13
        q == 2^d
        r == x[3] % q
        up == \/ 2 * r > q
              \/ 2 * r = q /\ ((x[3] \div q) % 2 = 1)
    IN  FNorm(<<x[1], x[2], (x[3] - r) + (IF up THEN q ELSE 0)>>)

FAdd(x, y) == FRound(FNorm(<<x[1] + y[1], x[2] + y[2], x[3] + y[3]>>))

\* float(s) * w for a score s in 0..9 (float(s) is exact).
FMulInt(s, w) == FRound(FNorm(<<s * w[1], s * w[2], s * w[3]>>))

(***************************************************************************)
(* REVIEW_DIMENSIONS: the 8 dimensions, in order, with their weights.       *)
(* Weight20 is the weight as written, in twentieths (0.20 = 4/20);          *)
(* WeightF is the double the literal denotes (the double nearest to it).    *)
(***************************************************************************)
REVIEW_DIMENSIONS == 1..8

Weight20(n) ==
    CASE n \in {1, 3} -> 4      \* 0.20
      [] n \in {2, 4} -> 3      \* 0.15
      [] n \in {5, 6} -> 2      \* 0.10
      [] n \in {7, 8} -> 1      \* 0.05

WeightF(n) ==
    CASE n \in {1, 3} -> <<26214, 419430, 419432>>   \* 0.2  = 0x3FC999999999999A
      [] n \in {2, 4} -> <<19660, 838860, 838860>>   \* 0.15 = 0x3FC3333333333333
      [] n \in {5, 6} -> <<13107, 209715, 209716>>   \* 0.1  = 0x3FB999999999999A
      [] n \in {7, 8} -> <<6553, 629145, 629146>>    \* 0.05 = 0x3FA999999999999A

\* round(val * 2) / 2, in tenths (4.5 is 45).  val * 2 is exact; round() of a
\* float goes to the nearest integer, a tie to the even one.
round_to_half(val) ==
    LET k == val[1] \div 2^16
        fh == val[1] % 2^16
        above == fh > 2^15 \/ (fh = 2^15 /\ (val[2] > 0 \/ val[3] > 0))
        tie == fh = 2^15 /\ val[2] = 0 /\ val[3] = 0
    IN  5 * (IF above \/ (tie /\ k % 2 = 1) THEN k + 1 ELSE k)

(***************************************************************************)
(* Tokens of a text.  form says what stands before the digit:               *)
(*   "idxname"  维度<idx>-<name>: <digit>                                    *)
(*   "name"     <name>: <digit>                                             *)
(*   "idx"      维度<idx>: <digit>                                           *)
(*   "dimline"  - **<name>**（权重..%）：<digit>.0 分   (a score record line)    *)
(*   "composite" **<val> / 5**                          (val in tenths)      *)
(*   "title"    # <doc name> 写作质量评审                                     *)
(* idx and name are dimension numbers (0: not there).                       *)
(***************************************************************************)
Tok(form, idx, name, digit) ==
    [form |-> form, idx |-> idx, name |-> name, digit |-> digit]

\* re.search(patterns[p], ...) matches at token t, for dimension number n
\* (n = i + 1 of the code's enumerate).
PatternMatches(p, n, t) ==
    CASE p = 1 -> t.form = "idxname" /\ t.idx = n /\ t.name = n
      [] p = 2 -> t.form \in {"idxname", "name"} /\ t.name = n
      [] p = 3 -> t.form = "idx" /\ t.idx = n

\* Position of the leftmost match of pattern p in the text, 0 if none.
Search(p, n, text) ==
    LET hits == {k \in DOMAIN text : PatternMatches(p, n, text[k])}
    IN  IF hits = {} THEN 0 ELSE CHOOSE k \in hits : \A j \in hits : k <= j

\* The bug of taking the match that stands first in the text, whatever its
\* pattern.
DimScoreLeftmost(n, text) ==
    LET hits == {k \in DOMAIN text : \E p \in 1..3 : PatternMatches(p, n, text[k])}
    IN  IF hits = {} THEN 0
        ELSE LET v == text[CHOOSE k \in hits : \A j \in hits : k <= j].digit
             IN  IF 1 <= v /\ v <= 5 THEN v ELSE 0

\* The inner loop over the patterns for one dimension: the first pattern with
\* a match decides (break); the result is the digit to store, or 0 for none.
DimScore(n, text) ==
    LET ps == {p \in 1..3 : Search(p, n, text) # 0}
    IN  IF ps = {} THEN 0
        ELSE LET p == CHOOSE q \in ps : \A o \in ps : q <= o
                 v == text[Search(p, n, text)].digit
             IN  IF 1 <= v /\ v <= 5 THEN v ELSE 0

\* The dict `scores`: a function from the dimensions that got a score.
ScoresOf(text) ==
    LET got == {n \in REVIEW_DIMENSIONS : DimScore(n, text) # 0}
    IN  [n \in got |-> DimScore(n, text)]

\* sum(scores.get(n, 0) * w for n, w in REVIEW_DIMENSIONS): left to right,
\* each product and each partial sum rounded.  (0 + first product is exact.)
RECURSIVE WeightedUpTo(_, _)
WeightedUpTo(scores, n) ==
    LET p == FMulInt(scores[n], WeightF(n))
    IN  IF n = 1 THEN p ELSE FAdd(WeightedUpTo(scores, n - 1), p)

\* The bug of returning the sentinel only when nothing was extracted.
CompositeLenient(scores) ==
    IF DOMAIN scores = {} THEN 0
    ELSE round_to_half(WeightedUpTo(
            [n \in REVIEW_DIMENSIONS |-> IF n \in DOMAIN scores THEN scores[n] ELSE 1], 8))

\* Lines 329-333: the composite, in tenths.
Composite(scores) ==
    IF Cardinality(DOMAIN scores) # Cardinality(REVIEW_DIMENSIONS) THEN 0
    ELSE round_to_half(WeightedUpTo(scores, 8))

parse_review_scores(review_text) ==
    [scores |-> ScoresOf(review_text), weighted |-> Composite(ScoresOf(review_text))]


(***************************************************************************)
(* Review texts the model service may answer.                               *)
(***************************************************************************)
\* One line "<label>: <digit>" for dimension n in the given form.
Line(form, n, digit) ==
    CASE form = "idxname" -> <<Tok("idxname", n, n, digit)>>
      [] form = "name"    -> <<Tok("name", 0, n, digit)>>
      [] form = "idx"     -> <<Tok("idx", n, 0, digit)>>

\* The lines of the 8 dimensions one after the other.
Flatten(lines) ==
    lines[1] \o lines[2] \o lines[3] \o lines[4] \o
    lines[5] \o lines[6] \o lines[7] \o lines[8]

FullText(form, vec) == Flatten([n \in REVIEW_DIMENSIONS |-> Line(form, n, vec[n])])

\* Score vectors: dimensions of equal weight 0.20 share a score, and so do
\* those of weight 0.15; the other four are free.
ScoreVectors ==
    {<<a, b, a, b, c, d, e, f>> : a \in 1..5, b \in 1..5, c \in 1..5,
                                   d \in 1..5, e \in 1..5, f \in 1..5}

\* A full score vector whose composite is 4.5.
VecA == <<5, 4, 5, 4, 4, 5, 4, 5>>

\* What can stand for one dimension instead of its plain line: nothing, a
\* digit out of range, or two labels of different forms in either order.
AltLines(form, n) ==
    {<< >>}
    \cup {Line(form, n, d) : d \in {0, 6, 9}}
    \cup {Line(f1, n, d1) \o Line(f2, n, d2) :
            f1 \in {"idxname", "name", "idx"}, f2 \in {"idxname", "name", "idx"},
            d1 \in {2, 7}, d2 \in {3, 0}}

ScoreTexts ==
    {FullText("name", v) : v \in ScoreVectors}
    \cup {FullText(f, v) : f \in {"idxname", "idx"}, v \in {VecA, <<1, 1, 1, 1, 1, 1, 1, 1>>}}
    \cup {Flatten([n \in REVIEW_DIMENSIONS |->
                      IF n = j THEN alt ELSE Line(f, n, VecA[n])]) :
            j \in REVIEW_DIMENSIONS, f \in {"idxname", "name", "idx"},
            alt \in UNION {AltLines(g, k) : g \in {"name"}, k \in REVIEW_DIMENSIONS}}

\* The review texts the service answers within a run: one with all eight
\* scores (composite 4.5) and one with two scores only (composite 0).
ReviewTexts ==
    {FullText("idxname", VecA),
     Line("idx", 3, 4) \o Line("name", 5, 8)}

(***************************************************************************)
(* The Model Invocation Gateway: _call_llm ("text") and                     *)
(* _call_llm_with_file ("file").                                            *)
(***************************************************************************)
\* The exception classes the external call is taken to raise: two of the
\* retryable ones, ValueError (response.text of a blocked answer) and a class
\* of the client library that only `except Exception` catches.
Exceptions == {"SSLError", "TimeoutError", "ValueError", "GoogleAPIError"}

\* isinstance(e, RETRY_EXCEPTIONS)
RETRY_EXCEPTIONS ==
    {"SSLEOFError", "SSLError", "ConnectionError", "TimeoutError", "OSError"}

\* The default of the parameter max_retries; no caller passes another value.
DEFAULT_MAX_RETRIES == 3

\* Largest max_retries the Gateway is exercised with on its own.
MaxRetriesBound == 3

\* The factor of the backoff delay, in seconds.
BaseDelay(kind) == IF kind = "text" THEN 10 ELSE 15

\* An exception of class type raised by the external call of attempt at (1-based).
Exc(type, at) == [type |-> type, at |-> at]
NoErr == Exc("None", 0)

\* What a Gateway function raises: the class, which raise statement it was,
\* the attempt count the message states, and the exception it is raised from.
Raised(type, msg, count, cause) ==
    [type |-> type, msg |-> msg, count |-> count, cause |-> cause]
NoExc == Raised("None", "", 0, NoErr)

\* Texts are records with a tag; response.text may also be None.
NoText == [tag |-> "none"]
EmptyText == [tag |-> "empty"]
NoPrompt == [tag |-> "none"]

GwIdle ==
    [pc |-> "idle", kind |-> "text", purpose |-> "none", prompt |-> NoPrompt,
     max_retries |-> 0, attempt |-> 0, last_err |-> NoErr, made |-> 0,
     sleeps |-> << >>, answer |-> NoText, ret |-> NoText, exc |-> NoExc]

\* The frame of a Gateway function entered: model obtained, last_err = None,
\* the loop about to make its first attempt.
GwEnter(kind, purpose, prompt, max_retries) ==
    [GwIdle EXCEPT !.pc = "loop", !.kind = kind, !.purpose = purpose,
                   !.prompt = prompt, !.max_retries = max_retries]

\* level1[:60_000] and level2[:60_000] of _agent3_review
LevelCeiling == 60000

\* The documents whose Stage-1 and Stage-2 answers come back longer than
\* LevelCeiling; the answers for every other document are well within it.
LongAnswered == {"c.pdf"}

\* len(response.text) of a Stage-1 or Stage-2 answer for document d.
ReplyLength(d) == IF d \in LongAnswered THEN LevelCeiling + 1 ELSE LevelCeiling \div 30

\* The bug of handing the text on without the slice.
CutNever(t, n) == t

\* t[:n] of a stage text.
Cut(t, n) == IF t.tag = "llm" /\ t.len > n THEN [t EXCEPT !.len = n] ELSE t

\* response.text of a successful external call of frame g, by what the call
\* is for.
Replies(g) ==
    CASE g.purpose = "test" ->
            {NoText, EmptyText, [tag |-> "llm", stage |-> "test", doc |-> ""]}
      [] g.purpose \in {"s1", "s2"} ->
            {[tag |-> "llm", stage |-> g.purpose, doc |-> g.prompt.doc,
              len |-> ReplyLength(g.prompt.doc)]}
      [] g.purpose = "s3" ->
            {[tag |-> "review", body |-> t] : t \in ReviewTexts}
      [] g.purpose \in {"agg", "skill"} ->
            {[tag |-> "llm", stage |-> g.purpose, doc |-> ""]}

\* return response.text if response.text else ""
TextOrEmpty(t) == IF t = NoText THEN EmptyText ELSE t

\* The try block succeeded: the function returns.
GwReturn(g, t) ==
    [g EXCEPT !.pc = "returned", !.made = g.made + 1, !.answer = t,
              !.ret = TextOrEmpty(t)]

\* The bug of retrying once more than max_retries says.
GwTransientOffByOne(g, e) ==
    IF g.attempt < g.max_retries
    THEN [g EXCEPT !.made = g.made + 1, !.last_err = e, !.attempt = g.attempt + 1,
                   !.sleeps = Append(g.sleeps, (g.attempt + 1) * BaseDelay(g.kind))]
    ELSE [g EXCEPT !.made = g.made + 1, !.last_err = e, !.pc = "raised",
                   !.exc = Raised("RuntimeError", "exhausted", g.max_retries, e)]

\* The bug of raising from the first failure instead of the last.
GwTransientFirstErr(g, e) ==
    LET first == IF g.last_err = NoErr THEN e ELSE g.last_err
    IN  IF g.attempt < g.max_retries - 1
        THEN [g EXCEPT !.made = g.made + 1, !.last_err = first,
                       !.attempt = g.attempt + 1,
                       !.sleeps = Append(g.sleeps, (g.attempt + 1) * BaseDelay(g.kind))]
        ELSE [g EXCEPT !.made = g.made + 1, !.last_err = first, !.pc = "raised",
                       !.exc = Raised("RuntimeError", "exhausted", g.max_retries, first)]

\* The bug of waiting the base delay before every retry.
GwTransientFlatWait(g, e) ==
    IF g.attempt < g.max_retries - 1
    THEN [g EXCEPT !.made = g.made + 1, !.last_err = e, !.attempt = g.attempt + 1,
                   !.sleeps = Append(g.sleeps, BaseDelay(g.kind))]
    ELSE [g EXCEPT !.made = g.made + 1, !.last_err = e, !.pc = "raised",
                   !.exc = Raised("RuntimeError", "exhausted", g.max_retries, e)]

\* except RETRY_EXCEPTIONS as e: remember it; sleep and go round again unless
\* this was the last attempt, after which the loop ends and the final raise
\* is reached.
GwTransient(g, e) ==
    IF g.attempt < g.max_retries - 1
    THEN [g EXCEPT !.made = g.made + 1, !.last_err = e, !.attempt = g.attempt + 1,
                   !.sleeps = Append(g.sleeps, (g.attempt + 1) * BaseDelay(g.kind))]
    ELSE [g EXCEPT !.made = g.made + 1, !.last_err = e, !.pc = "raised",
                   !.exc = Raised("RuntimeError", "exhausted", g.max_retries, e)]

\* The bug of treating every exception as retryable.
GwFatalRetried(g, e) == GwTransient(g, e)

\* except Exception: _call_llm re-raises e itself, _call_llm_with_file raises
\* a RuntimeError from it.
GwFatal(g, e) ==
    [g EXCEPT !.made = g.made + 1, !.pc = "raised",
              !.exc = IF g.kind = "text"
                      THEN Raised(e.type, "original", 0, e)
                      ELSE Raised("RuntimeError", "upload_failed", 0, e)]

\* The frames one pass of the loop body can lead to, by what the external
\* call does: answer, raise a retryable exception, raise another one.
GwSteps(g) ==
    {GwReturn(g, t) : t \in Replies(g)}
    \cup {GwTransient(g, Exc(type, g.attempt + 1)) : type \in Exceptions \cap RETRY_EXCEPTIONS}
    \cup {GwFatal(g, Exc(type, g.attempt + 1)) : type \in Exceptions \ RETRY_EXCEPTIONS}

\* The frames in which the function entered as g can end: it returned or raised.
RECURSIVE GwFinals(_)
GwFinals(g) ==
    IF g.pc # "loop" THEN {g} ELSE UNION {GwFinals(h) : h \in GwSteps(g)}

\* One pass of the loop body whose external call answers.
GWAttemptOk ==
    /\ gw.pc = "loop"
    /\ \E t \in Replies(gw) : gw' = GwReturn(gw, t)
    /\ UNCHANGED <<sx, dir, docs, origin, fs, run, resume, pc, i, cur, results, exit, log>>

\* One pass of the loop body whose external call raises a retryable exception.
GWAttemptTransient ==
    /\ gw.pc = "loop"
    /\ \E type \in Exceptions \cap RETRY_EXCEPTIONS :
            gw' = GwTransient(gw, Exc(type, gw.attempt + 1))
    /\ UNCHANGED <<sx, dir, docs, origin, fs, run, resume, pc, i, cur, results, exit, log>>

\* One pass of the loop body whose external call raises any other exception.
GWAttemptFatal ==
    /\ gw.pc = "loop"
    /\ \E type \in Exceptions \ RETRY_EXCEPTIONS :
            gw' = GwFatal(gw, Exc(type, gw.attempt + 1))
    /\ UNCHANGED <<sx, dir, docs, origin, fs, run, resume, pc, i, cur, results, exit, log>>

\* A caller of its own invokes one of the two Gateway functions.
GWInvoke ==
    /\ pc = "none"
    /\ gw.pc = "idle"
    /\ \E kind \in {"text", "file"}, m \in 1..MaxRetriesBound :
            gw' = GwEnter(kind, "test", NoPrompt, m)
    /\ UNCHANGED <<sx, dir, docs, origin, fs, run, resume, pc, i, cur, results, exit, log>>

\* That caller has the result or the exception; the frame is gone.
GWRelease ==
    /\ pc = "none"
    /\ gw.pc \in {"returned", "raised"}
    /\ gw' = GwIdle
    /\ UNCHANGED <<sx, dir, docs, origin, fs, run, resume, pc, i, cur, results, exit, log>>

(***************************************************************************)
(* The documents.                                                           *)
(***************************************************************************)
\* The files a directory is made of, in the order sorted() gives their paths.
\* a.md and a.txt share a stem; b.md holds white space only; d.txt cannot be
\* read; the text of e.md starts with "[".
DocUniverse == <<"a.md", "a.txt", "b.md", "c.pdf", "d.txt", "e.md">>

\* Most files a directory holds.
MaxDocs == 2

\* Most invocations of the command on one directory.
MaxRuns == 2

Index(d) == CHOOSE k \in DOMAIN DocUniverse : DocUniverse[k] = d

\* Path.stem and Path.suffix
Stem(d) ==
    CASE d \in {"a.md", "a.txt"} -> "a"
      [] d = "b.md" -> "b"
      [] d = "c.pdf" -> "c"
      [] d = "d.txt" -> "d"
      [] d = "e.md" -> "e"

Suffix(d) ==
    CASE d \in {"a.md", "b.md", "e.md"} -> ".md"
      [] d \in {"a.txt", "d.txt"} -> ".txt"
      [] d = "c.pdf" -> ".pdf"

DOC_EXTENSIONS ==
    {".md", ".txt", ".rst", ".docx", ".pdf", ".png", ".jpg", ".jpeg", ".gif", ".webp"}

\* The keys of MIME_TYPES.
MIME_TYPES == {".pdf", ".png", ".jpg", ".jpeg", ".gif", ".webp"}

\* What is on disk for a text document.
FileState(d) ==
    CASE d \in {"a.md", "a.txt"} -> "text"
      [] d = "b.md" -> "blank"
      [] d = "d.txt" -> "unreadable"
      [] d = "e.md" -> "bracket"
      [] OTHER -> "binary"

is_multimodal(d) == Suffix(d) \in MIME_TYPES

\* What _read_doc returns: a string, of which the model keeps whether
\* strip() leaves nothing and whether it starts with "[".  A failed read
\* gives "[读取失败: ...]".
read_doc(d) ==
    IF Suffix(d) \in MIME_TYPES THEN [tag |-> "str", blank |-> TRUE, bracket |-> FALSE]
    ELSE CASE FileState(d) = "unreadable" -> [tag |-> "str", blank |-> FALSE, bracket |-> TRUE]
           [] FileState(d) = "blank" -> [tag |-> "str", blank |-> TRUE, bracket |-> FALSE]
           [] FileState(d) = "bracket" -> [tag |-> "str", blank |-> FALSE, bracket |-> TRUE]
           [] OTHER -> [tag |-> "str", blank |-> FALSE, bracket |-> FALSE]

\* _get_doc_files: the files with an allowed extension, sorted.
get_doc_files(d) ==
    CHOOSE s \in [1..Cardinality({f \in d : Suffix(f) \in DOC_EXTENSIONS}) -> d] :
        /\ Range(s) = {f \in d : Suffix(f) \in DOC_EXTENSIONS}
        /\ \A j, k \in DOMAIN s : j < k => Index(s[j]) < Index(s[k])

(***************************************************************************)
(* The files under doc_dir/_analysis.                                       *)
(***************************************************************************)
Stems == {Stem(DocUniverse[k]) : k \in DOMAIN DocUniverse}

\* level1/<stem>_L1.md, level2/<stem>_L2.md, scores/<stem>_score.md
l1_path(d) == <<"level1", Stem(d)>>
l2_path(d) == <<"level2", Stem(d)>>
score_path(d) == <<"scores", Stem(d)>>

ArtifactPaths == {"level1", "level2", "scores"} \X Stems
RankingPath == <<"scores", "ranking.md">>
SummaryPath == <<"", "summary.md">>
SkillPath == <<"", "SKILL.md">>
Paths == ArtifactPaths \cup {RankingPath, SummaryPath, SkillPath}

Absent == [tag |-> "absent"]

\* A file: what was written, and (for the record) for which document.
File(body, d) == [tag |-> "file", body |-> body, by |-> d]

exists(p) == fs[p].tag = "file"

(***************************************************************************)
(* Results, score records and the ranking.                                  *)
(***************************************************************************)
\* DocAnalysisResult.  how is not a field of the code's class: it records
\* which branch built the result ("fresh", "skipped", "resumed").
Result(d, level1, level2, review, scores, weighted, how) ==
    [doc_path |-> d, level1 |-> level1, level2 |-> level2, review |-> review,
     scores |-> scores, weighted_score |-> weighted, how |-> how]

NoResult == [tag |-> "none"]

\* "# 分析跳过\n文档无法读取或为空: <name>"
SkipText(d) == [tag |-> "skip", doc |-> d]

\* text.startswith("# 分析跳过")
IsSkipText(t) == t.tag = "skip"

\* The tokens of a text value ("" has none).
Body(t) == IF t.tag = "review" THEN t.body ELSE << >>

\* The bug of printing the composite without its decimal.
FloatStrWhole(w) == <<w \div 10, 0>>

\* The composite as str(float) prints it: integer part, point, one decimal.
FloatStr(w) == <<w \div 10, w % 10>>

\* float() of such a string, in tenths.
FloatOf(str) == str[1] * 10 + str[2]

\* _write_score_file: the title, a line per dimension (scores.get(name, 0)),
\* the composite line, the full review.
ScoreRecord(r) ==
    <<[form |-> "title", idx |-> 0, name |-> 0, digit |-> 0, doc |-> r.doc_path]>>
    \o [n \in REVIEW_DIMENSIONS |->
            Tok("dimline", 0, n, IF n \in DOMAIN r.scores THEN r.scores[n] ELSE 0)]
    \o <<[form |-> "composite", idx |-> 0, name |-> 0, digit |-> 0,
          val |-> FloatStr(r.weighted_score)]>>
    \o Body(r.review)

\* re.search(r"\*\*([\d.]+)\s*/\s*5\*\*", score_txt): position of the first
\* composite line, 0 if none.
SearchComposite(text) ==
    LET hits == {k \in DOMAIN text : text[k].form = "composite"}
    IN  IF hits = {} THEN 0 ELSE CHOOSE k \in hits : \A j \in hits : k <= j

\* Lines 709-720: the result built from what the three files hold.
Reconstruct(d, l1_txt, l2_txt, score_txt) ==
    LET parsed == parse_review_scores(score_txt)
        m == SearchComposite(score_txt)
        w == IF m # 0 THEN FloatOf(score_txt[m].val) ELSE parsed.weighted
    IN  Result(d, l1_txt, l2_txt, EmptyText, parsed.scores, w, "resumed")

\* Lines 707-720: the result rebuilt from the three files of the document.
Resumed(d) ==
    Reconstruct(d, fs[l1_path(d)].body, fs[l2_path(d)].body, fs[score_path(d)].body)

\* Lines 541-545: the result of a document that cannot be read or is empty.
Skipped(d) == Result(d, SkipText(d), SkipText(d), EmptyText, << >>, 0, "skipped")

\* The bug of writing the rows in the order of the documents.
RankOrderUnsorted(rs) == [k \in DOMAIN rs |-> k]

\* sorted(results, key=lambda r: r.weighted_score, reverse=True): a stable
\* sort, so results of equal composite keep their order.  The value is the
\* list of the positions in rs, best first.
RankOrder(rs) ==
    CHOOSE o \in [DOMAIN rs -> DOMAIN rs] :
        /\ \A j, k \in DOMAIN rs : j # k => o[j] # o[k]
        /\ \A j, k \in DOMAIN rs : j < k =>
              \/ rs[o[j]].weighted_score > rs[o[k]].weighted_score
              \/ rs[o[j]].weighted_score = rs[o[k]].weighted_score /\ o[j] < o[k]

\* str(r.scores.get(d[0], "-")) for each dimension
ScoreCells(r) ==
    [n \in REVIEW_DIMENSIONS |-> IF n \in DOMAIN r.scores THEN r.scores[n] ELSE 0]

\* _write_ranking_table: one row per result, rank i = 1, 2, ...
RankingTable(rs) ==
    LET o == RankOrder(rs)
    IN  [k \in DOMAIN rs |->
            [rank |-> k, name |-> rs[o[k]].doc_path, cells |-> ScoreCells(rs[o[k]]),
             composite |-> FloatStr(rs[o[k]].weighted_score)]]

\* The score summary handed to the aggregator: a line per result, best first.
ScoreSummary(rs) ==
    LET o == RankOrder(rs)
    IN  [k \in DOMAIN rs |->
            [name |-> rs[o[k]].doc_path, cells |-> ScoreCells(rs[o[k]]),
             composite |-> FloatStr(rs[o[k]].weighted_score)]]

\* The bug of keeping the placeholder texts as well.
KeptTextsAll(rs, field) ==
    [k \in DOMAIN rs |-> IF field = "level1" THEN rs[k].level1 ELSE rs[k].level2]

\* SelectSeq with the test written out: the texts that are no skip placeholder.
RECURSIVE KeptTexts(_, _)
KeptTexts(rs, field) ==
    IF rs = << >> THEN << >>
    ELSE LET t == IF field = "level1" THEN Head(rs).level1 ELSE Head(rs).level2
         IN  (IF IsSkipText(t) THEN << >> ELSE <<t>>) \o KeptTexts(Tail(rs), field)

(***************************************************************************)
(* analyze_single_doc and analyze_doc_dir, as called by cmd_analyze.        *)
(* A Gateway call is one step of the run: it ends in one of GwFinals.       *)
(* pc says what the invocation does next:                                   *)
(*   "doc"  the loop body for document i      "s2", "s3"  call Agent2, Agent3 *)
(*   "w1", "w2", "w3"  write the three files  "rank"  write the ranking       *)
(*   "agg"  aggregate                          "skill"  compile the skill     *)
(***************************************************************************)
Event(ev, doc, what) == [ev |-> ev, doc |-> doc, what |-> what]

Running == {"doc", "s2", "s3", "w1", "w2", "w3", "rank", "agg", "skill"}

\* The document the loop is at.
Doc == docs[i]

\* What a stage sends along with its rubric: the text read, or the file.
Payload(d) ==
    IF is_multimodal(d) THEN [tag |-> "file", doc |-> d, mime |-> Suffix(d)]
    ELSE [tag |-> "text", doc |-> d]

\* _agent1_analyze, _agent2_analyze and _agent3_review pick the Gateway
\* function by file_path and mime_type.
GatewayKind(d) == IF is_multimodal(d) THEN "file" ELSE "text"

\* The bug of rebuilding from the files whether or not resume was asked for.
ResumeHitAlways(d) == exists(l1_path(d)) /\ exists(l2_path(d)) /\ exists(score_path(d))

\* Line 707: resume and l1_path.exists() and l2_path.exists() and score_path.exists()
ResumeHit(d) == resume /\ exists(l1_path(d)) /\ exists(l2_path(d)) /\ exists(score_path(d))

\* The bug of sending every document through the stages.
UnusableNever(d) == FALSE

\* Line 539: not content.strip() or content.startswith("[")
Unusable(d) == ~is_multimodal(d) /\ (read_doc(d).blank \/ read_doc(d).bracket)

\* The bug of leaving the loop after its first document.
AfterDocFirstOnly == "rank"

\* The loop goes to the next document, or is over.
AfterDoc == IF i = Len(docs) THEN "rank" ELSE "doc"

\* level1_texts and level2_texts of lines 731-732
level1_texts == KeptTexts(results, "level1")
level2_texts == KeptTexts(results, "level2")

\* The Gateway call the invocation makes next, as the frame it enters.
PendingCall ==
    CASE pc = "doc" ->
            GwEnter(GatewayKind(Doc), "s1",
                    [tag |-> "s1", doc |-> Doc, content |-> Payload(Doc)],
                    DEFAULT_MAX_RETRIES)
      [] pc = "s2" ->
            GwEnter(GatewayKind(Doc), "s2",
                    [tag |-> "s2", doc |-> Doc, content |-> Payload(Doc)],
                    DEFAULT_MAX_RETRIES)
      [] pc = "s3" ->
            GwEnter(GatewayKind(Doc), "s3",
                    [tag |-> "s3", doc |-> Doc, content |-> Payload(Doc),
                     level1 |-> Cut(cur.level1, LevelCeiling),
                     level2 |-> Cut(cur.level2, LevelCeiling)],
                    DEFAULT_MAX_RETRIES)
      [] pc = "agg" ->
            GwEnter("text", "agg",
                    [tag |-> "agg", level1_texts |-> level1_texts,
                     level2_texts |-> level2_texts,
                     score_summary |-> ScoreSummary(results)],
                    DEFAULT_MAX_RETRIES)
      [] pc = "skill" ->
            GwEnter("text", "skill", [tag |-> "skill", summary |-> cur.text],
                    DEFAULT_MAX_RETRIES)

\* The invocation is about to call the Gateway.
CallPending ==
    \/ pc = "doc" /\ ~ResumeHit(Doc) /\ ~Unusable(Doc)
    \/ pc \in {"s2", "s3", "skill"}
    \/ pc = "agg" /\ level1_texts # << >> /\ level2_texts # << >>

\* The document index a call is logged under (0: not for a document).
CallDoc == IF pc \in {"doc", "s2", "s3"} THEN i ELSE 0

\* cmd_analyze is entered: analyze_doc_dir lists the documents; with none it
\* raises FileNotFoundError and cmd_analyze returns 1.
StartRun ==
    /\ pc \in {"none", "done", "failed", "killed"}
    /\ run < MaxRuns
    /\ run' = run + 1
    /\ resume' \in BOOLEAN
    /\ docs' = get_doc_files(dir)
    /\ IF docs' = << >> THEN pc' = "failed" /\ exit' = 1
                        ELSE pc' = "doc" /\ exit' = -1
    /\ i' = 1
    /\ results' = << >>
    /\ log' = << >>
    /\ cur' = NoResult
    /\ UNCHANGED <<sx, gw, dir, origin, fs>>

\* Lines 707-720 and 727: the document is rebuilt from its three files.
ResumeDoc ==
    /\ pc = "doc"
    /\ ResumeHit(Doc)
    /\ results' = Append(results, Resumed(Doc))
    /\ log' = Append(log, Event("resumed", i, "files"))
    /\ pc' = AfterDoc
    /\ i' = i + 1
    /\ UNCHANGED <<sx, gw, dir, docs, origin, fs, run, resume, cur, exit>>

\* Lines 538-545: analyze_single_doc returns the skipped result at once.
SkipDoc ==
    /\ pc = "doc"
    /\ ~ResumeHit(Doc)
    /\ Unusable(Doc)
    /\ cur' = Skipped(Doc)
    /\ log' = Append(log, Event("skipped", i, "doc"))
    /\ pc' = "w1"
    /\ UNCHANGED <<sx, gw, dir, docs, origin, fs, run, resume, i, results, exit>>

\* Lines 552-556: Agent1 is called and returns; the pause.
Stage1 ==
    /\ pc = "doc"
    /\ CallPending
    /\ \E g \in GwFinals(PendingCall) :
          /\ g.pc = "returned"
          /\ cur' = Result(Doc, g.ret, NoText, NoText, << >>, 0, "fresh")
    /\ log' = log \o <<Event("call", i, "s1"), Event("pause", i, "delay")>>
    /\ pc' = "s2"
    /\ UNCHANGED <<sx, gw, dir, docs, origin, fs, run, resume, i, results, exit>>

\* Lines 558-562: Agent2 is called and returns; the pause.
Stage2 ==
    /\ pc = "s2"
    /\ \E g \in GwFinals(PendingCall) :
          /\ g.pc = "returned"
          /\ cur' = [cur EXCEPT !.level2 = g.ret]
    /\ log' = log \o <<Event("call", i, "s2"), Event("pause", i, "delay")>>
    /\ pc' = "s3"
    /\ UNCHANGED <<sx, gw, dir, docs, origin, fs, run, resume, i, results, exit>>

\* Lines 564-580: Agent3 is called with both texts and returns; the scores
\* are parsed and the result is built.
Stage3 ==
    /\ pc = "s3"
    /\ \E g \in GwFinals(PendingCall) :
          /\ g.pc = "returned"
          /\ LET parsed == parse_review_scores(Body(g.ret))
             IN  cur' = [cur EXCEPT !.review = g.ret, !.scores = parsed.scores,
                                    !.weighted_score = parsed.weighted]
    /\ log' = log \o <<Event("call", i, "s3"), Event("scored", i, "s3")>>
    /\ pc' = "w1"
    /\ UNCHANGED <<sx, gw, dir, docs, origin, fs, run, resume, i, results, exit>>

\* Line 724
WriteLevel1 ==
    /\ pc = "w1"
    /\ fs' = [fs EXCEPT ![l1_path(Doc)] = File(cur.level1, Doc)]
    /\ log' = Append(log, Event("write", i, "level1"))
    /\ pc' = "w2"
    /\ UNCHANGED <<sx, gw, dir, docs, origin, run, resume, i, cur, results, exit>>

\* The bug of leaving the Stage-2 text unwritten.
WriteLevel2Dropped ==
    /\ pc = "w2"
    /\ pc' = "w3"
    /\ UNCHANGED <<sx, gw, dir, docs, origin, fs, run, resume, i, cur, results, exit, log>>

\* Line 725
WriteLevel2 ==
    /\ pc = "w2"
    /\ fs' = [fs EXCEPT ![l2_path(Doc)] = File(cur.level2, Doc)]
    /\ log' = Append(log, Event("write", i, "level2"))
    /\ pc' = "w3"
    /\ UNCHANGED <<sx, gw, dir, docs, origin, run, resume, i, cur, results, exit>>

\* Lines 726-727: the score record is written, the result appended.
WriteScore ==
    /\ pc = "w3"
    /\ fs' = [fs EXCEPT ![score_path(Doc)] = File(ScoreRecord(cur), Doc)]
    /\ log' = Append(log, Event("write", i, "scores"))
    /\ results' = Append(results, cur)
    /\ origin' = [origin EXCEPT ![Doc] = cur.weighted_score]
    /\ cur' = NoResult
    /\ pc' = AfterDoc
    /\ i' = i + 1
    /\ UNCHANGED <<sx, gw, dir, docs, run, resume, exit>>

\* The bug of catching the exception of a document's stage and going on
\* with the next document.
PropagateSwallowed(g) ==
    /\ IF pc \in {"doc", "s2", "s3"}
       THEN pc' = AfterDoc /\ i' = i + 1 /\ exit' = exit /\ cur' = NoResult
       ELSE /\ pc' = "failed"
            /\ i' = i
            /\ exit' = 1
            /\ cur' = [tag |-> "raised", exc |-> g.exc, at |-> g.purpose, doc |-> CallDoc]
    /\ log' = log \o <<Event("call", CallDoc, g.purpose),
                        Event("raise", CallDoc, g.exc.msg)>>
    /\ UNCHANGED <<sx, gw, dir, docs, origin, fs, run, resume, results>>

\* The exception g.exc leaves the Gateway function: nothing in
\* analyze_single_doc or analyze_doc_dir catches, so it reaches cmd_analyze
\* (lines 133-141: RuntimeError, ValueError, FileNotFoundError) or, for any
\* other class, main (line 212); either prints it and returns 1.
Propagate(g) ==
    /\ pc' = "failed"
    /\ exit' = 1
    /\ cur' = [tag |-> "raised", exc |-> g.exc, at |-> g.purpose, doc |-> CallDoc]
    /\ log' = log \o <<Event("call", CallDoc, g.purpose),
                        Event("raise", CallDoc, g.exc.msg)>>
    /\ UNCHANGED <<sx, gw, dir, docs, origin, fs, run, resume, i, results>>

\* The Gateway call the invocation makes at this point raises.
CallRaises ==
    /\ pc \in Running
    /\ CallPending
    /\ \E g \in GwFinals(PendingCall) : g.pc = "raised" /\ Propagate(g)

\* Line 729
WriteRanking ==
    /\ pc = "rank"
    /\ fs' = [fs EXCEPT ![RankingPath] = File(RankingTable(results), "")]
    /\ log' = Append(log, Event("write", 0, "ranking"))
    /\ pc' = "agg"
    /\ UNCHANGED <<sx, gw, dir, docs, origin, run, resume, i, cur, results, exit>>

\* Lines 741-743 and 749: nothing to aggregate; summary.md gets the placeholder.
AggregateSkip ==
    /\ pc = "agg"
    /\ level1_texts = << >> \/ level2_texts = << >>
    /\ cur' = [tag |-> "summary", text |-> [tag |-> "nosummary"]]
    /\ fs' = [fs EXCEPT ![SummaryPath] = File([tag |-> "nosummary"], "")]
    /\ log' = Append(log, Event("write", 0, "summary"))
    /\ pc' = "skill"
    /\ UNCHANGED <<sx, gw, dir, docs, origin, run, resume, i, results, exit>>

\* Lines 745-749 and run_aggregation: the one call of the aggregator
\* returns; summary.md is written.
Aggregate ==
    /\ pc = "agg"
    /\ CallPending
    /\ \E g \in GwFinals(PendingCall) :
          /\ g.pc = "returned"
          /\ cur' = [tag |-> "summary", text |-> g.ret]
          /\ fs' = [fs EXCEPT ![SummaryPath] = File(g.ret, "")]
    /\ log' = log \o <<Event("call", 0, "agg"), Event("write", 0, "summary")>>
    /\ pc' = "skill"
    /\ UNCHANGED <<sx, gw, dir, docs, origin, run, resume, i, results, exit>>

\* The bug of not calling the Skill Compiler when there is nothing to
\* aggregate, SKILL.md getting the placeholder.
CompileSkillUnlessPlaceholder ==
    /\ pc = "skill"
    /\ IF cur.text = [tag |-> "nosummary"]
       THEN /\ fs' = [fs EXCEPT ![SkillPath] = File(cur.text, "")]
            /\ log' = Append(log, Event("write", 0, "SKILL"))
       ELSE \E g \in GwFinals(PendingCall) :
               /\ g.pc = "returned"
               /\ fs' = [fs EXCEPT ![SkillPath] = File(g.ret, "")]
               /\ log' = log \o <<Event("call", 0, "skill"), Event("write", 0, "SKILL")>>
    /\ cur' = NoResult
    /\ pc' = "done"
    /\ exit' = 0
    /\ UNCHANGED <<sx, gw, dir, docs, origin, run, resume, i, results>>

\* Lines 752-756 and cmd_analyze's return 0: the Skill Compiler returns,
\* SKILL.md is written.
CompileSkill ==
    /\ pc = "skill"
    /\ \E g \in GwFinals(PendingCall) :
          /\ g.pc = "returned"
          /\ fs' = [fs EXCEPT ![SkillPath] = File(g.ret, "")]
    /\ log' = log \o <<Event("call", 0, "skill"), Event("write", 0, "SKILL")>>
    /\ cur' = NoResult
    /\ pc' = "done"
    /\ exit' = 0
    /\ UNCHANGED <<sx, gw, dir, docs, origin, run, resume, i, results>>

\* The process is stopped from outside, at a blocking call, a pause or
\* between two statements: what it held in memory is gone, the files stay.
Interrupt ==
    /\ pc \in Running
    /\ pc' = "killed"
    /\ cur' = NoResult
    /\ i' = 1
    /\ results' = << >>
    /\ log' = << >>
    /\ UNCHANGED <<sx, gw, dir, docs, origin, fs, run, resume, exit>>

(***************************************************************************)
(* The Score Extractor on its own.                                          *)
(***************************************************************************)
NoOut == [tag |-> "none"]

SXParse ==
    /\ sx.out = NoOut
    /\ sx' = [sx EXCEPT !.out = parse_review_scores(sx.text)]
    /\ UNCHANGED <<gw, dir, docs, origin, fs, run, resume, pc, i, cur, results, exit, log>>

(***************************************************************************)
(* The prompt of a text document's Stage-1 or Stage-2 call.  A string is a  *)
(* sequence of segments [seg, len]: what the characters are and how many.   *)
(***************************************************************************)
Seg(kind, len) == [seg |-> kind, len |-> len]

\* len(s)
RECURSIVE StrLen(_)
StrLen(s) == IF s = << >> THEN 0 ELSE Head(s).len + StrLen(Tail(s))

\* s[:n]
RECURSIVE Slice(_, _)
Slice(s, n) ==
    IF s = << >> \/ n <= 0 THEN << >>
    ELSE IF Head(s).len <= n THEN <<Head(s)>> \o Slice(Tail(s), n - Head(s).len)
         ELSE <<Seg(Head(s).seg, n)>>

\* The text of a document of n characters.
Content(n) == IF n = 0 THEN << >> ELSE <<Seg("content", n)>>

\* len(AGENT1_LEVEL1_PROMPT), len(AGENT2_LEVEL2_PROMPT)
AGENT1_LEVEL1_PROMPT_LEN == 546
AGENT2_LEVEL2_PROMPT_LEN == 429

Rubric(stage) ==
    IF stage = "s1" THEN <<Seg("AGENT1_LEVEL1_PROMPT", AGENT1_LEVEL1_PROMPT_LEN)>>
    ELSE <<Seg("AGENT2_LEVEL2_PROMPT", AGENT2_LEVEL2_PROMPT_LEN)>>

\* "\n\n"
Sep == <<Seg("sep", 2)>>

\* The ceilings of content[:120_000] in analyze_single_doc, of
\* (content or "")[:120_000] in the agents, and max_chars of _call_llm.
FullContentCeiling == 120000
AgentCeiling == 120000
max_chars == 900000

\* "\n\n[文档已截断，仅分析前 12 万字]" and "\n\n[文档过长已截断]"
ContentCutMarkerLen == 20
PromptCutMarkerLen == 11
ContentCutMarker == <<Seg("content_cut_marker", ContentCutMarkerLen)>>
PromptCutMarker == <<Seg("prompt_cut_marker", PromptCutMarkerLen)>>

\* Lines 546-548: full_content
full_content(content) ==
    IF StrLen(content) > FullContentCeiling
    THEN Slice(content, FullContentCeiling) \o ContentCutMarker
    ELSE Slice(content, FullContentCeiling)

\* Lines 477 and 493: the prompt _agent1_analyze / _agent2_analyze build
\* for a text document.
agent_prompt(stage, content) == Rubric(stage) \o Sep \o Slice(content, AgentCeiling)

\* Lines 415-418: the prompt _call_llm sends.
call_llm_prompt(prompt) ==
    IF StrLen(prompt) > max_chars
    THEN Slice(prompt, max_chars) \o PromptCutMarker
    ELSE prompt

\* The prompt that reaches generate_content for a stage of a text document
\* whose content is given.
SentPrompt(stage, content) == call_llm_prompt(agent_prompt(stage, full_content(content)))

\* The content lengths tried: around the ceilings, up to MaxDelta away.
MaxDelta == 25
ContentLengths ==
    {0, 1}
    \cup {FullContentCeiling + d : d \in (0 - MaxDelta)..MaxDelta}
    \cup {max_chars + d : d \in {0 - 600, 0, 600}}

PXBuild ==
    /\ sx.out = NoOut
    /\ sx' = [sx EXCEPT !.out = SentPrompt(sx.text.stage, Content(sx.text.len))]
    /\ UNCHANGED <<gw, dir, docs, origin, fs, run, resume, pc, i, cur, results, exit, log>>

\* _write_score_file for the result of a review, then the resume branch on
\* what was written.
RTRoundTrip ==
    /\ sx.out = NoOut
    /\ LET review == IF sx.text = << >> THEN EmptyText
                     ELSE [tag |-> "review", body |-> sx.text]
           parsed == parse_review_scores(Body(review))
           l1 == [tag |-> "llm", stage |-> "s1", doc |-> "a.md"]
           l2 == [tag |-> "llm", stage |-> "s2", doc |-> "a.md"]
           r == Result("a.md", l1, l2, review, parsed.scores, parsed.weighted, "fresh")
       IN  sx' = [sx EXCEPT !.out =
                    [orig |-> r, back |-> Reconstruct("a.md", l1, l2, ScoreRecord(r))]]
    /\ UNCHANGED <<gw, dir, docs, origin, fs, run, resume, pc, i, cur, results, exit, log>>

(***************************************************************************)
(* The credential.  A value is a string; "None" stands for None (an         *)
(* argument not given, a variable not set), "" is the empty string.         *)
(***************************************************************************)
\* bool(v) of a str | None
Truthy(v) == v \notin {"None", ""}

KeyNames == {"GEMINI_API_KEY", "GOOGLE_API_KEY"}

\* load_dotenv(env_path): os.environ after the call.  override is not
\* passed, so a variable the process already has keeps its value.
load_dotenv(file, environ) ==
    [k \in KeyNames |-> IF environ[k] = "None" THEN file[k] ELSE environ[k]]

\* _load_api_key; installed says whether `from dotenv import load_dotenv`
\* succeeds, file is what the .env found sets ("None" everywhere: no .env).
load_api_key(api_key, installed, file, environ) ==
    IF Truthy(api_key) THEN api_key
    ELSE LET e == IF installed THEN load_dotenv(file, environ) ELSE environ
         IN  IF Truthy(e["GEMINI_API_KEY"]) THEN e["GEMINI_API_KEY"]
             ELSE e["GOOGLE_API_KEY"]

\* _get_genai_model up to genai.configure: the key configured, or the
\* ValueError raised before the model exists and any request is made.
get_genai_model(api_key, installed, file, environ) ==
    LET k == load_api_key(api_key, installed, file, environ)
    IN  IF ~Truthy(k) THEN [tag |-> "raised", type |-> "ValueError", requests |-> 0]
        ELSE [tag |-> "configured", api_key |-> k]

\* The settings tried.
KeyInputs ==
    [api_key : {"None", "", "K_arg"},
     installed : BOOLEAN,
     file : [KeyNames -> {"None", "K_file"}],
     environ : [KeyNames -> {"None", "", "K_env"}]]

KEYResolve ==
    /\ sx.out = NoOut
    /\ sx' = [sx EXCEPT !.out = get_genai_model(sx.text.api_key, sx.text.installed,
                                                sx.text.file, sx.text.environ)]
    /\ UNCHANGED <<gw, dir, docs, origin, fs, run, resume, pc, i, cur, results, exit, log>>

(***************************************************************************)
(* Specifications.                                                          *)
(***************************************************************************)
Quiet ==
    /\ gw = GwIdle
    /\ docs = << >>
    /\ origin = [d \in Range(DocUniverse) |-> -1]
    /\ fs = [p \in Paths |-> Absent]
    /\ run = 0
    /\ resume = FALSE
    /\ pc = "none"
    /\ i = 1
    /\ cur = NoResult
    /\ results = << >>
    /\ exit = -1
    /\ log = << >>

\* A directory of at most MaxDocs files, nothing analysed yet.
Init ==
    /\ sx = [text |-> << >>, out |-> NoOut]
    /\ dir \in {d \in SUBSET Range(DocUniverse) : Cardinality(d) <= MaxDocs}
    /\ Quiet

Next ==
    \/ StartRun
    \/ ResumeDoc
    \/ SkipDoc
    \/ Stage1
    \/ Stage2
    \/ Stage3
    \/ WriteLevel1
    \/ WriteLevel2
    \/ WriteScore
    \/ CallRaises
    \/ WriteRanking
    \/ AggregateSkip
    \/ Aggregate
    \/ CompileSkill
    \/ Interrupt

Spec == Init /\ [][Next]_vars

\* The Gateway functions called on their own.
InitGateway ==
    /\ sx = [text |-> << >>, out |-> NoOut]
    /\ dir = {}
    /\ Quiet

NextGateway ==
    \/ GWInvoke
    \/ GWAttemptOk
    \/ GWAttemptTransient
    \/ GWAttemptFatal
    \/ GWRelease

SpecGateway == InitGateway /\ [][NextGateway]_vars

\* _parse_review_scores applied to one review text.
InitScore ==
    /\ sx \in [text : ScoreTexts, out : {NoOut}]
    /\ dir = {}
    /\ Quiet

NextScore == SXParse

SpecScore == InitScore /\ [][NextScore]_vars

\* _get_genai_model for one setting of argument, .env and environment.
InitKey ==
    /\ sx \in [text : KeyInputs, out : {NoOut}]
    /\ dir = {}
    /\ Quiet

NextKey == KEYResolve

SpecKey == InitKey /\ [][NextKey]_vars

\* A score record written and read back.
InitRecord ==
    /\ sx \in [text : ScoreTexts \cup {<< >>}, out : {NoOut}]
    /\ dir = {}
    /\ Quiet

NextRecord == RTRoundTrip

SpecRecord == InitRecord /\ [][NextRecord]_vars

\* The Stage-1 or Stage-2 prompt built for one text document.
InitPrompt ==
    /\ sx \in [text : [stage : {"s1", "s2"}, len : ContentLengths], out : {NoOut}]
    /\ dir = {}
    /\ Quiet

NextPrompt == PXBuild

SpecPrompt == InitPrompt /\ [][NextPrompt]_vars

(***************************************************************************)
(* Properties of the Gateway functions (checked under SpecGateway).         *)
(***************************************************************************)

\* C1: in both Gateway functions, when attempts 1..N-1 failed with a
\* retryable exception and attempt N answered (N <= max_retries), the
\* function returns the text of attempt N ("" for no text), having made
\* exactly N attempts and slept N-1 times, and it makes no further attempt:
\* the frame only goes back to its caller.
C1_ReturnsNthAttempt ==
    /\ [](gw.pc = "returned" =>
            /\ gw.made = gw.attempt + 1
            /\ gw.made \in 1..gw.max_retries
            /\ gw.made = 1 => gw.last_err = NoErr
            /\ gw.made > 1 => /\ gw.last_err.at = gw.made - 1
                              /\ gw.last_err.type \in RETRY_EXCEPTIONS
            /\ gw.ret = TextOrEmpty(gw.answer)
            /\ Len(gw.sleeps) = gw.made - 1
            /\ gw.exc = NoExc)
    /\ [][gw.pc = "returned" => gw'.pc = "idle"]_gw

C1_Witness ==
    /\ gw.pc = "returned"
    /\ gw.kind = "file"
    /\ gw.max_retries = 3
    /\ gw.made = 3
    /\ gw.last_err = Exc("TimeoutError", 2)
    /\ gw.ret = [tag |-> "llm", stage |-> "test", doc |-> ""]

\* C2: when every one of the max_retries attempts failed with a retryable
\* exception, exactly max_retries attempts were made, and the function raises
\* a RuntimeError that is raised from the exception of the last attempt and
\* states max_retries; while fewer attempts have failed, the loop goes on.
C2_ExhaustedRaisesLast ==
    /\ gw.pc = "loop" => gw.made < gw.max_retries /\ gw.made = gw.attempt
    /\ (gw.pc = "raised" /\ gw.exc.msg = "exhausted") =>
            /\ gw.made = gw.max_retries
            /\ gw.exc.type = "RuntimeError"
            /\ gw.exc.count = gw.max_retries
            /\ gw.exc.cause = gw.last_err
            /\ gw.exc.cause.at = gw.max_retries
            /\ gw.exc.cause.type \in RETRY_EXCEPTIONS
            /\ Len(gw.sleeps) = gw.max_retries - 1
    /\ (gw.pc = "raised" /\ gw.made = gw.max_retries
            /\ gw.exc.cause.type \in RETRY_EXCEPTIONS) => gw.exc.msg = "exhausted"

C2_Witness ==
    /\ gw.pc = "raised"
    /\ gw.kind = "text"
    /\ gw.max_retries = 3
    /\ gw.exc = Raised("RuntimeError", "exhausted", 3, Exc("SSLError", 3))
    /\ gw.made = 3

\* C3: an attempt that fails with an exception outside RETRY_EXCEPTIONS ends
\* the function at once, in _call_llm with that exception and in
\* _call_llm_with_file with a RuntimeError raised from it: the failing
\* attempt is the last one made, no sleep follows it, and the loop never goes
\* on after such an exception, whatever attempts remain.
C3_FatalPropagatesAtOnce ==
    /\ gw.pc \in {"loop", "returned"} =>
            gw.last_err = NoErr \/ gw.last_err.type \in RETRY_EXCEPTIONS
    /\ (gw.pc = "raised" /\ gw.exc.cause.type \notin RETRY_EXCEPTIONS) =>
            /\ gw.exc.cause.at = gw.made
            /\ gw.made = gw.attempt + 1
            /\ Len(gw.sleeps) = gw.made - 1
            /\ gw.exc.msg # "exhausted"
            /\ gw.kind = "text" => gw.exc.type = gw.exc.cause.type
            /\ gw.kind = "file" => gw.exc.type = "RuntimeError"
                                   /\ gw.exc.msg = "upload_failed"

C3_Witness ==
    /\ gw.pc = "raised"
    /\ gw.kind = "file"
    /\ gw.max_retries = 3
    /\ gw.made = 2
    /\ gw.exc = Raised("RuntimeError", "upload_failed", 0, Exc("ValueError", 2))
    /\ Len(gw.sleeps) = 1

(***************************************************************************)
(* Properties of the Score Extractor (checked under SpecScore).             *)
(***************************************************************************)
\* The weighted sum of a full score map in exact arithmetic, in twentieths.
ExactSum20(scores) ==
    scores[1] * Weight20(1) + scores[2] * Weight20(2) + scores[3] * Weight20(3)
    + scores[4] * Weight20(4) + scores[5] * Weight20(5) + scores[6] * Weight20(6)
    + scores[7] * Weight20(7) + scores[8] * Weight20(8)

\* C4: when all 8 dimensions got a score in 1..5, the composite is a multiple
\* of 0.5 at distance at most 0.25 from the exact weighted sum, and is not 0;
\* when a dimension got none, the composite is 0 and the map holds just the
\* dimensions that got one.
C4_CompositeOrSentinel ==
    sx.out # NoOut =>
        /\ sx.out.scores = ScoresOf(sx.text)
        /\ \A n \in DOMAIN sx.out.scores : sx.out.scores[n] \in 1..5
        /\ IF DOMAIN sx.out.scores = REVIEW_DIMENSIONS
           THEN /\ sx.out.weighted % 5 = 0
                /\ 2 * sx.out.weighted - ExactSum20(sx.out.scores) \in -5..5
                /\ sx.out.weighted # 0
           ELSE sx.out.weighted = 0

C4_Witness ==
    /\ sx.out # NoOut
    /\ DOMAIN sx.out.scores = REVIEW_DIMENSIONS \ {3}
    /\ sx.out.weighted = 0

\* C5: for a full score map, the composite is the multiple of 0.5 nearest to
\* the exact weighted sum, a sum midway between two multiples going to the
\* upper one.
C5_RoundHalfUp ==
    (sx.out # NoOut /\ DOMAIN sx.out.scores = REVIEW_DIMENSIONS) =>
        sx.out.weighted = 5 * ((ExactSum20(sx.out.scores) + 5) \div 10)

(***************************************************************************)
(* Properties of a run over a directory (checked under Spec).               *)
(***************************************************************************)
\* The three files of document d are there.
ArtifactsExist(d) == exists(l1_path(d)) /\ exists(l2_path(d)) /\ exists(score_path(d))

\* The row of the ranking table on disk that names document d.
RankingRow(d) ==
    CHOOSE r \in DOMAIN fs[RankingPath].body : fs[RankingPath].body[r].name = d

\* C6: a document rebuilt from its three files gets no Gateway call in that
\* invocation, and in the ranking the invocation writes, two rebuilt documents
\* stand in the order their own analyses would give them: the earlier one
\* first unless the later one's own composite is higher.
C6_ResumeSameRanking ==
    /\ \A j \in DOMAIN results : results[j].how = "resumed" =>
            \A p \in DOMAIN log : ~(log[p].ev = "call" /\ log[p].doc = j)
    /\ pc \in {"agg", "skill", "done"} =>
            \A j, k \in DOMAIN results :
                (/\ j < k
                 /\ results[j].how = "resumed" /\ results[k].how = "resumed"
                 /\ origin[docs[j]] >= 0 /\ origin[docs[k]] >= 0) =>
                    ((RankingRow(docs[j]) < RankingRow(docs[k]))
                        <=> (origin[docs[j]] >= origin[docs[k]]))

\* C7: while an invocation runs, every document before the one the loop is at
\* has its three files; a Gateway call for document j+1 comes after the three
\* writes of document j (unless j was rebuilt from files that were there);
\* and so at an interruption the documents before the one in flight have
\* their three files.
C7_ArtifactsBeforeNextDocument ==
    /\ [](pc \in Running => \A j \in 1..(i - 1) : ArtifactsExist(docs[j]))
    /\ [](\A p \in DOMAIN log :
            (log[p].ev = "call" /\ log[p].doc > 1) =>
                \/ results[log[p].doc - 1].how = "resumed"
                \/ \E q1, q2, q3 \in 1..(p - 1) :
                      /\ q1 < q2 /\ q2 < q3
                      /\ log[q1] = Event("write", log[p].doc - 1, "level1")
                      /\ log[q2] = Event("write", log[p].doc - 1, "level2")
                      /\ log[q3] = Event("write", log[p].doc - 1, "scores"))
    /\ [][(pc \in Running /\ pc' = "killed") =>
            \A j \in 1..(i - 1) :
                /\ fs'[l1_path(docs[j])].tag = "file"
                /\ fs'[l2_path(docs[j])].tag = "file"
                /\ fs'[score_path(docs[j])].tag = "file"]_vars

C7_Witness ==
    /\ pc = "s3"
    /\ i = 2
    /\ results[1].how = "fresh"
    /\ ArtifactsExist(docs[1])
    /\ \E p \in DOMAIN log : log[p] = Event("call", 2, "s2")

\* C8: a step changes a per-document file that is there only if it is a write
\* of the pipeline of the document the file was written for.
C8_OnlyOwnFreshRunOverwrites ==
    [][\A p \in ArtifactPaths :
            (exists(p) /\ fs'[p] # fs[p]) =>
                /\ pc \in {"w1", "w2", "w3"}
                /\ cur.how # "resumed"
                /\ fs[p].by = Doc]_vars

\* C9: once a Gateway call for document k has raised for exhausted retries,
\* the invocation has failed with status 1 and nothing follows: the loop
\* stays at k with the k-1 results before it, no event of a later document
\* and no write of the ranking, the summary or the skill is in the log; the
\* failing step changes no file, and none changes until another invocation.
C9_ExhaustedAbortsRun ==
    /\ [](\A p \in DOMAIN log :
            (log[p].ev = "raise" /\ log[p].what = "exhausted" /\ log[p].doc >= 1) =>
                /\ p = Len(log)
                /\ pc = "failed"
                /\ exit = 1
                /\ i = log[p].doc
                /\ Len(results) = log[p].doc - 1
                /\ \A q \in DOMAIN log :
                      /\ log[q].doc <= log[p].doc
                      /\ ~(log[q].ev = "write" /\ log[q].doc = 0))
    /\ [][(log' # log /\ log' # << >> /\ log'[Len(log')].ev = "raise") => fs' = fs]_vars
    /\ [][(pc = "failed" /\ run' = run) => (fs' = fs /\ pc' = "failed")]_vars

C9_Witness ==
    /\ pc = "failed"
    /\ cur = [tag |-> "raised",
              exc |-> Raised("RuntimeError", "exhausted", 3, Exc("TimeoutError", 3)),
              at |-> "s2", doc |-> 2]
    /\ ArtifactsExist(docs[1])
    /\ results[1].how = "fresh"
    /\ ~exists(l1_path(docs[2]))

\* C10: a text document that cannot be read or is blank, when its pipeline
\* runs, gets no Gateway call and no pause; its result has the skip
\* placeholder as Stage-1 and Stage-2 text, no score and composite 0; the
\* step that skips it does not end the invocation, which goes on to write
\* its files and to the next document.
C10_SkippedWithoutCalls ==
    /\ [](\A j \in DOMAIN results :
            (/\ ~is_multimodal(docs[j])
             /\ FileState(docs[j]) \in {"blank", "unreadable"}
             /\ results[j].how # "resumed") =>
                /\ IsSkipText(results[j].level1) /\ results[j].level1.doc = docs[j]
                /\ IsSkipText(results[j].level2) /\ results[j].level2.doc = docs[j]
                /\ results[j].scores = << >>
                /\ results[j].weighted_score = 0
                /\ \A p \in DOMAIN log :
                      log[p].doc = j => log[p].ev \notin {"call", "pause", "raise"})
    /\ [][(/\ pc = "doc"
           /\ ~is_multimodal(Doc)
           /\ FileState(Doc) \in {"blank", "unreadable"}
           /\ ~ResumeHit(Doc)
           /\ pc' # "killed") =>
                (pc' = "w1" /\ exit' = exit /\ i' = i /\ cur' = Skipped(Doc))]_vars
    /\ [][(pc = "w3" /\ cur.how = "skipped" /\ pc' # "killed") =>
                (pc' = AfterDoc /\ i' = i + 1 /\ exit' = exit)]_vars

C10_Witness ==
    /\ pc = "s2"
    /\ i = 2
    /\ results[1].how = "skipped"
    /\ FileState(docs[1]) = "blank"
    /\ ArtifactsExist(docs[1])

\* C11: when the loop is over, a document whose result holds the skip
\* placeholder has neither text among the texts to merge, no line in the
\* score summary made for the aggregator, and no row in the ranking table
\* on disk.
C11_SkippedExcluded ==
    pc = "agg" =>
        \A j \in DOMAIN results : IsSkipText(results[j].level1) =>
            /\ \A k \in DOMAIN level1_texts : level1_texts[k] # results[j].level1
            /\ \A k \in DOMAIN level2_texts : level2_texts[k] # results[j].level2
            /\ \A k \in DOMAIN ScoreSummary(results) :
                    ScoreSummary(results)[k].name # docs[j]
            /\ \A r \in DOMAIN fs[RankingPath].body :
                    fs[RankingPath].body[r].name # docs[j]

\* C12: a result built by the skip branch belongs to a text document that
\* could not be read or is blank; a multimodal document, and a text document
\* that was read and is not blank, whatever it starts with, has a result
\* built from its three stage calls (unless it was rebuilt from its files).
C12_SkippedOnlyUnreadableOrEmpty ==
    \A j \in DOMAIN results :
        /\ results[j].how = "skipped" =>
                ~is_multimodal(docs[j]) /\ FileState(docs[j]) \in {"blank", "unreadable"}
        /\ (results[j].how # "resumed"
                /\ (is_multimodal(docs[j]) \/ FileState(docs[j]) \in {"text", "bracket"})) =>
                /\ results[j].how = "fresh"
                /\ \A st \in {"s1", "s2", "s3"} :
                      \E p \in DOMAIN log : log[p] = Event("call", j, st)

\* The events of the log that are Gateway invocations for purpose st.
CallsFor(st) == {p \in DOMAIN log : log[p].ev = "call" /\ log[p].what = st}

\* C13: an invocation calls the aggregator at most once; once the summary is
\* written, if no result is a real analysis (all hold the skip placeholder)
\* there was no aggregator call and summary.md holds the "nothing to
\* aggregate" placeholder, and otherwise there was exactly one call and
\* summary.md holds what it returned; a failure in the aggregator comes from
\* that one call.
C13_AggregatorCalledOnceOrNever ==
    /\ Cardinality(CallsFor("agg")) <= 1
    /\ pc \in {"skill", "done"} =>
            IF \A j \in DOMAIN results : IsSkipText(results[j].level1)
            THEN /\ CallsFor("agg") = {}
                 /\ fs[SummaryPath].body = [tag |-> "nosummary"]
            ELSE /\ Cardinality(CallsFor("agg")) = 1
                 /\ fs[SummaryPath].body = [tag |-> "llm", stage |-> "agg", doc |-> ""]
    /\ (pc = "failed" /\ cur # NoResult /\ cur.at = "agg") =>
            /\ Cardinality(CallsFor("agg")) = 1
            /\ \E j \in DOMAIN results : ~IsSkipText(results[j].level1)

C13_Witness ==
    /\ pc = "skill"
    /\ Len(results) = 2
    /\ \A j \in DOMAIN results : results[j].how = "skipped"
    /\ CallsFor("agg") = {}
    /\ fs[SummaryPath].body = [tag |-> "nosummary"]

\* C14: the ranking table an invocation wrote has one row per result, with
\* ranks 1..n from the top and composites that never increase downwards,
\* each row showing the composite of its document; so a document with all 8
\* scores stands above every document of composite 0, and the document
\* scored 5,4,5,4,4,5,4,5 shows composite 4.5.
C14_RankingDescending ==
    pc \in {"agg", "skill", "done"} =>
        LET table == fs[RankingPath].body
        IN  /\ Len(table) = Len(results)
            /\ \A k \in DOMAIN table : table[k].rank = k
            /\ \A k \in DOMAIN table : k < Len(table) =>
                    FloatOf(table[k].composite) >= FloatOf(table[k + 1].composite)
            /\ \A j \in DOMAIN results :
                    /\ Cardinality({r \in DOMAIN table : table[r].name = docs[j]}) = 1
                    /\ table[RankingRow(docs[j])].composite = FloatStr(results[j].weighted_score)
                    /\ table[RankingRow(docs[j])].cells = ScoreCells(results[j])
            /\ \A j, k \in DOMAIN results :
                    (DOMAIN results[j].scores = REVIEW_DIMENSIONS
                        /\ results[k].weighted_score = 0) =>
                            RankingRow(docs[j]) < RankingRow(docs[k])
            /\ \A j \in DOMAIN results :
                    (\A n \in REVIEW_DIMENSIONS :
                        n \in DOMAIN results[j].scores /\ results[j].scores[n] = VecA[n]) =>
                            table[RankingRow(docs[j])].composite = <<4, 5>>

C14_Witness ==
    /\ pc = "agg"
    /\ Len(results) = 2
    /\ results[1].how = "fresh" /\ results[1].weighted_score = 0
    /\ results[2].how = "fresh" /\ results[2].weighted_score = 45
    /\ fs[RankingPath].body[1].name = docs[2]
    /\ fs[RankingPath].body[1].composite = <<4, 5>>
    /\ fs[RankingPath].body[2].name = docs[1]

(***************************************************************************)
(* Properties of the Stage-1 / Stage-2 prompt (checked under SpecPrompt).   *)
(***************************************************************************)
\* C15: the prompt sent for a text document is the rubric, a separator and
\* the content; content longer than the ceiling is cut at the ceiling and
\* followed by the whole truncation marker, content within the ceiling is
\* there whole and without a marker.
C15_TruncationMarked ==
    sx.out # NoOut =>
        sx.out = Rubric(sx.text.stage) \o Sep \o
                    (IF sx.text.len > FullContentCeiling
                     THEN Content(FullContentCeiling) \o ContentCutMarker
                     ELSE Content(sx.text.len))

(***************************************************************************)
(* Properties of the score record (checked under SpecRecord).               *)
(***************************************************************************)
\* C16: a result, whose composite is 0 or a multiple of 0.5 from 1 to 5 and
\* whose score map is complete or partial, written as a score record and
\* rebuilt from that record, has the same composite and the same score map.
C16_ScoreRecordRoundTrip ==
    sx.out # NoOut =>
        /\ sx.out.orig.weighted_score \in {0} \cup {5 * k : k \in 2..10}
        /\ sx.out.back.weighted_score = sx.out.orig.weighted_score
        /\ sx.out.back.scores = sx.out.orig.scores
        /\ sx.out.back.doc_path = sx.out.orig.doc_path
        /\ sx.out.back.level1 = sx.out.orig.level1
        /\ sx.out.back.level2 = sx.out.orig.level2

C16_Witness ==
    /\ sx.out # NoOut
    /\ DOMAIN sx.out.orig.scores = REVIEW_DIMENSIONS
    /\ sx.out.orig.weighted_score = 35
    /\ sx.out.back.weighted_score = 35
    /\ sx.out.back.how = "resumed"

(***************************************************************************)
(* Properties of the credential (checked under SpecKey).                    *)
(***************************************************************************)
\* C17: with python-dotenv installed, the key configured is the argument
\* when one (not empty) is given; else the key the .env file sets when it
\* sets one, whatever the process environment holds; else the key of the
\* process environment; and with no key anywhere ValueError is raised before
\* any request.
C17_CredentialPriority ==
    (sx.out # NoOut /\ sx.text.installed) =>
        LET inp == sx.text
            file_key == IF inp.file["GEMINI_API_KEY"] # "None"
                        THEN inp.file["GEMINI_API_KEY"] ELSE inp.file["GOOGLE_API_KEY"]
            env_key == IF Truthy(inp.environ["GEMINI_API_KEY"])
                       THEN inp.environ["GEMINI_API_KEY"] ELSE inp.environ["GOOGLE_API_KEY"]
        IN  CASE Truthy(inp.api_key) -> sx.out = [tag |-> "configured", api_key |-> inp.api_key]
              [] ~Truthy(inp.api_key) /\ Truthy(file_key) ->
                    sx.out = [tag |-> "configured", api_key |-> file_key]
              [] ~Truthy(inp.api_key) /\ ~Truthy(file_key) /\ Truthy(env_key) ->
                    sx.out = [tag |-> "configured", api_key |-> env_key]
              [] OTHER ->
                    sx.out = [tag |-> "raised", type |-> "ValueError", requests |-> 0]


\* The events of the log that belong to the document at index j.
DocEvents(j) == SelectSeq(log, LAMBDA e : e.doc = j)

\* Lines 552-580 and 724-726 in program order, as events of document j.
FreshOrder(j) ==
    <<Event("call", j, "s1"), Event("pause", j, "delay"),
      Event("call", j, "s2"), Event("pause", j, "delay"),
      Event("call", j, "s3"), Event("scored", j, "s3"),
      Event("write", j, "level1"), Event("write", j, "level2"),
      Event("write", j, "scores")>>

\* s is the beginning of t.
IsPrefix(s, t) == Len(s) <= Len(t) /\ SubSeq(t, 1, Len(s)) = s

\* The events of a document that went into the stages are the beginning of
\* the program order, or that beginning up to a call followed by the raise
\* of that call.
StagesInOrder(j) ==
    LET es == DocEvents(j)
    IN  \/ IsPrefix(es, FreshOrder(j))
        \/ /\ Len(es) \in {2, 4, 6}
           /\ es[Len(es)].ev = "raise"
           /\ SubSeq(es, 1, Len(es) - 1) = SubSeq(FreshOrder(j), 1, Len(es) - 1)

\* Stage 3 is about to be called: both earlier stages have returned their
\* texts for this document.
BothReturned ==
    /\ cur.level1.tag = "llm" /\ cur.level1.stage = "s1" /\ cur.level1.doc = Doc
    /\ cur.level2.tag = "llm" /\ cur.level2.stage = "s2" /\ cur.level2.doc = Doc
    /\ SubSeq(DocEvents(i), 1, 4) = SubSeq(FreshOrder(i), 1, 4)

Before(p, ev, j, what) ==
    {q \in 1..(p - 1) : log[q] = Event(ev, j, what)}

\* Document j is over: its score record was written (analysed or skipped),
\* or it was rebuilt from its files.
Finished(p, j) ==
    Before(p, "write", j, "scores") # {} \/ Before(p, "resumed", j, "files") # {}

\* C19: the documents are taken one at a time in the lexicographic order of
\* their names; the aggregator is called only after every document was
\* persisted, resumed or skipped and the ranking was written; the Skill
\* Compiler is called only after the summary was written.
C19_DocumentOrderPhasesApart ==
    /\ \A a, b \in DOMAIN docs : a < b => Index(docs[a]) < Index(docs[b])
    /\ \A p, q \in DOMAIN log :
          p < q =>
            /\ (log[p].doc > 0 /\ log[q].doc > 0) => log[p].doc <= log[q].doc
            /\ log[p].doc = 0 => log[q].doc = 0
    /\ \A j \in 1..Len(docs) :
          (pc \in Running /\ j < i) => Finished(Len(log) + 1, j)
    /\ \A p \in CallsFor("agg") :
          /\ \A j \in 1..Len(docs) : Finished(p, j)
          /\ Before(p, "write", 0, "ranking") # {}
    /\ \A p \in CallsFor("skill") :
          Before(p, "write", 0, "summary") # {}

\* Two documents were handled in turn, the aggregator and then the Skill
\* Compiler were called.
C19_Witness ==
    /\ Len(docs) = 2
    /\ CallsFor("agg") # {}
    /\ CallsFor("skill") # {}
    /\ pc = "done"

\* C20: for each dimension the pattern of highest priority that matches
\* anywhere in the text decides, by the digit of its leftmost match, even
\* when a pattern of lower priority matches earlier in the text; a digit
\* outside 1..5 leaves the dimension unscored and no later pattern is tried;
\* with no match the dimension is unscored; every value stored is in 1..5.
C20_PatternPriority ==
    sx.out # NoOut =>
        LET text   == sx.text
            scores == sx.out.scores
        IN  /\ \A n \in REVIEW_DIMENSIONS :
                  /\ \A p \in 1..3, k \in DOMAIN text :
                        ( /\ PatternMatches(p, n, text[k])
                          /\ \A j \in 1..(k - 1) : ~PatternMatches(p, n, text[j])
                          /\ \A q \in 1..(p - 1), j \in DOMAIN text :
                                ~PatternMatches(q, n, text[j]) )
                        => IF text[k].digit \in 1..5
                           THEN n \in DOMAIN scores /\ scores[n] = text[k].digit
                           ELSE n \notin DOMAIN scores
                  /\ (\A p \in 1..3, k \in DOMAIN text : ~PatternMatches(p, n, text[k]))
                        => n \notin DOMAIN scores
            /\ \A n \in DOMAIN scores : scores[n] \in 1..5

\* A text was parsed in which, for one dimension, the name alone with 2
\* stands before the index with full name with 3: the score stored is 3.
C20_Witness ==
    /\ sx.out # NoOut
    /\ \E n \in REVIEW_DIMENSIONS, k, m \in DOMAIN sx.text :
          /\ k < m
          /\ sx.text[k] = Tok("name", 0, n, 2)
          /\ sx.text[m] = Tok("idxname", n, n, 3)
          /\ n \in DOMAIN sx.out.scores
          /\ sx.out.scores[n] = 3

\* C21: within one invocation the k-th wait taken is k times the base delay,
\* 10 seconds for _call_llm and 15 for _call_llm_with_file; a wait follows
\* each retryable failure but the one of the last attempt allowed, and none
\* follows an answer or any other exception.
C21_LinearBackoff ==
    gw.pc # "idle" =>
        /\ \A k \in DOMAIN gw.sleeps :
              gw.sleeps[k] = k * (IF gw.kind = "text" THEN 10 ELSE 15)
        /\ Len(gw.sleeps) <= gw.max_retries - 1
        /\ gw.pc = "loop" => Len(gw.sleeps) = gw.made
        /\ gw.pc \in {"returned", "raised"} => Len(gw.sleeps) = gw.made - 1

\* An attachment call answered at its third attempt, after waits of 15 and 30
\* seconds.
C21_Witness ==
    /\ gw.pc = "returned"
    /\ gw.kind = "file"
    /\ gw.made = 3
    /\ gw.sleeps = <<15, 30>>

\* The step just taken rebuilt the document at the loop from its files: a
\* resumed result was appended, no file changed, no call was made.
RebuiltStep ==
    /\ Len(results') = Len(results) + 1
    /\ results'[Len(results')].how = "resumed"
    /\ fs' = fs
    /\ log' = Append(log, Event("resumed", i, "files"))

\* The step just taken entered the pipeline of the document at the loop: its
\* first call returned or raised, or the document was skipped as unusable.
PipelineStep ==
    /\ results' = results
    /\ i' = i
    /\ log' # log
    /\ log'[Len(log) + 1] \in {Event("call", i, "s1"), Event("skipped", i, "doc")}

\* C22: when a document's turn comes, it is rebuilt without Gateway calls if
\* and only if resume is on and its three files are all there; otherwise its
\* pipeline runs, and a document whose pipeline ran to its end had its three
\* files written in this invocation (after three calls, unless it was
\* unusable); with resume off no document is rebuilt.
C22_ResumeIffAllThree ==
    /\ [][(pc = "doc" /\ pc' # "killed") =>
            IF resume /\ ArtifactsExist(Doc) THEN RebuiltStep ELSE PipelineStep]_vars
    /\ [](\A j \in DOMAIN results :
            IF results[j].how = "resumed"
            THEN /\ resume
                 /\ \A p \in DOMAIN log :
                        log[p].doc = j => log[p].ev \notin {"call", "write"}
            ELSE /\ \A f \in {"level1", "level2", "scores"} :
                        \E p \in DOMAIN log : log[p] = Event("write", j, f)
                 /\ results[j].how = "fresh" =>
                        \A st \in {"s1", "s2", "s3"} :
                            \E p \in DOMAIN log : log[p] = Event("call", j, st))

\* A second invocation with resume on found the Stage-1 file of its first
\* document but not its score record (the first invocation was stopped
\* between the writes), and has called Stage 1 again.
C22_Witness ==
    /\ run = 2
    /\ resume
    /\ pc = "s2"
    /\ i = 1
    /\ exists(l1_path(Doc))
    /\ ~exists(score_path(Doc))

\* C23: a document is rebuilt only from files that were written by the
\* analysis of that same document; in particular in the first invocation on
\* a directory, which starts without any file, no document is rebuilt and
\* each usable document gets its own three calls.
C23_ResumedFromOwnArtifacts ==
    \A j \in DOMAIN results :
        /\ results[j].how = "resumed" =>
              /\ run > 1
              /\ fs[l1_path(docs[j])].by = docs[j]
              /\ fs[l2_path(docs[j])].by = docs[j]
              /\ fs[score_path(docs[j])].by = docs[j]
        /\ (run = 1 /\ ~Unusable(docs[j])) =>
              \A st \in {"s1", "s2", "s3"} :
                  \E p \in DOMAIN log : log[p] = Event("call", j, st)

\* C24: when a stage call of document j has raised, no write of this
\* invocation went to any of the three locations of j (what was there before
\* is still there), the raising step itself changes no file, and no file
\* changes before another invocation starts.
C24_RaiseLeavesArtifacts ==
    /\ [](\A p \in DOMAIN log :
            (log[p].ev = "raise" /\ log[p].doc >= 1) =>
                \A q \in DOMAIN log :
                    (log[q].ev = "write" /\ log[q].doc >= 1) =>
                        Stem(docs[log[q].doc]) # Stem(docs[log[p].doc]))
    /\ [][(log' # log /\ log' # << >> /\ log'[Len(log')].ev = "raise"
              /\ log'[Len(log')].doc >= 1) =>
            (fs' = fs /\ pc' = "failed")]_vars
    /\ [][(pc = "failed" /\ run' = run) => fs' = fs]_vars

\* The Gateway invocations an invocation of the command has made.
Calls == {p \in DOMAIN log : log[p].ev = "call"}

\* The documents that went through the three stages.
Analysed == {j \in DOMAIN results : results[j].how = "fresh"}

\* C25: an invocation that completed has made 3 Gateway invocations for each
\* document that was neither skipped nor rebuilt, one for the aggregator if
\* some result is no skipped one (it does not hold the skip placeholder; a
\* result rebuilt from the files of a skipped document holds it), and one for
\* the Skill Compiler: that one exactly once, also with the "nothing to
\* aggregate" summary and with every document rebuilt; and it wrote the
\* ranking, the summary and SKILL.md, once each.
C25_CallCountOfCompletedRun ==
    pc = "done" =>
        /\ Len(results) = Len(docs)
        /\ Cardinality(Calls) =
              3 * Cardinality(Analysed)
              + (IF \E j \in DOMAIN results : ~IsSkipText(results[j].level1)
                 THEN 1 ELSE 0)
              + 1
        /\ Cardinality(CallsFor("skill")) = 1
        /\ \A w \in {"ranking", "summary", "SKILL"} :
              Cardinality({p \in DOMAIN log : log[p] = Event("write", 0, w)}) = 1
        /\ fs[RankingPath].body = RankingTable(results)
        /\ exists(SummaryPath) /\ exists(SkillPath)
        /\ exit = 0

\* A second invocation rebuilt its only document, a skipped one, from its
\* files and completed with the Skill Compiler as its only Gateway invocation.
C25_Witness ==
    /\ pc = "done"
    /\ run = 2
    /\ Len(results) = 1
    /\ results[1].how = "resumed"
    /\ IsSkipText(results[1].level1)
    /\ Cardinality(Calls) = 1
    /\ CallsFor("skill") # {}
=============================================================================
